---- MODULE Spec2Model ----
(***************************************************************************)
(* A state-machine model of the Front3D dataset loader                      *)
(* (lib/data/datasets/front3d.py) and of the dataset path catalog           *)
(* (lib/config/path_catalog.py).                                            *)
(*                                                                         *)
(* Text is modelled as a sequence of one-character strings, so that         *)
(* str.strip() and str.split("/") are computed rather than assumed.         *)
(* Tensors are modelled by their provenance: the asset they were decoded    *)
(* from and the sequence of transform operations applied since.  The        *)
(* codecs and the transform primitives are external to the repository;      *)
(* every asset named on disk is taken to exist and to decode.               *)
(***************************************************************************)
EXTENDS Integers, Sequences, FiniteSets, TLC

VARIABLES
    fileList,   \* the lines of the file at file_list_path, as readlines() returns them
    fieldsArg,  \* the `fields` argument the client passes to Front3D(...)
    ctorArgs,   \* per dataset instance: the num_samples and shuffle arguments of its construction
    ds,         \* per dataset instance: the attributes of the Front3D object
    frame,      \* per worker: the running __getitem__ / __len__ call (its locals)
    ret,        \* per worker: what the last finished call handed to its caller
    catalog,    \* DatasetCatalog.DATASETS
    lookups     \* the outcomes of the DatasetCatalog.get calls made so far

vars == <<fileList, fieldsArg, ctorArgs, ds, frame, ret, catalog, lookups>>

(***************************************************************************)
(* Bounds of the model.                                                     *)
(***************************************************************************)
MaxLines == 2

MaxLookups == 3

(***************************************************************************)
(* Text.                                                                    *)
(***************************************************************************)
Whitespace == {" ", "\n", "\t"}

\* str.lstrip(): drop the leading whitespace characters.
RECURSIVE LStrip(_)
LStrip(s) ==
    IF s = <<>> THEN <<>>
    ELSE IF Head(s) \in Whitespace THEN LStrip(Tail(s))
    ELSE s

\* str.rstrip(): drop the trailing whitespace characters.
RECURSIVE RStrip(_)
RStrip(s) ==
    IF s = <<>> THEN <<>>
    ELSE IF s[Len(s)] \in Whitespace THEN RStrip(SubSeq(s, 1, Len(s) - 1))
    ELSE s

\* str.strip(): whitespace is removed at both ends, never inside.
Strip(s) == RStrip(LStrip(s))

\* str.split(sep): the parts between the separators; always at least one part.
RECURSIVE SplitAcc(_, _, _)
SplitAcc(s, sep, cur) ==
    IF s = <<>> THEN <<cur>>
    ELSE IF Head(s) = sep THEN <<cur>> \o SplitAcc(Tail(s), sep, <<>>)
    ELSE SplitAcc(Tail(s), sep, Append(cur, Head(s)))

Split(s, sep) == SplitAcc(s, sep, <<>>)

(***************************************************************************)
(* The inputs: file lists, constructor arguments, field selections.         *)
(***************************************************************************)
\* Lines a file list may hold: two entries (one with surrounding blanks) and
\* a blank line.
RawLines ==
    { <<"a", "/", "1", "\n">>,
      <<" ", "b", "/", "2", " ", "\n">>,
      <<"\n">> }

FileLists == UNION { [1..n -> RawLines] : n \in 0..MaxLines }

FieldNames == {"color", "depth", "instance2d", "geometry", "semantic3d", "instance3d"}

\* Python's None and a list of field names; the code only tests membership,
\* so the list is kept as the set of its elements.
NoneFields == [tag |-> "none", items |-> {}]

ListFields(F) == [tag |-> "list", items |-> F]

FieldArgs == {NoneFields} \cup { ListFields(F) : F \in SUBSET FieldNames }

\* num_samples: None, or an integer (a slice bound may be negative or past the end).
NoneNum == [none |-> TRUE, val |-> 0]

IntNum(k) == [none |-> FALSE, val |-> k]

NumSamplesArgs == {NoneNum} \cup { IntNum(k) : k \in (-1)..(MaxLines + 1) }

Instances == {"first", "second"}

Workers == {"w1", "w2"}

(***************************************************************************)
(* Tensors and transform chains.                                            *)
(***************************************************************************)
\* One transform primitive: its name, its argument as written, and the
\* factor by which it divides every spatial extent (1: extents are kept).
Op(name, arg, den) == [op |-> name, arg |-> arg, den |-> den]

\* A value decoded from an asset and transformed since.  `obj` tells tensor
\* objects apart: two values with one `obj` are one object in memory.
Tensor(src, obj) == [src |-> src, ops |-> <<>>, obj |-> obj]

\* An asset on disk: the scene directory under the dataset root (empty: the
\* root itself), the file-name pattern and the image id put into it.
File(scene, pattern, image) == [scene |-> scene, pattern |-> pattern, image |-> image]

\* Who allocated a tensor object: the dataset at construction, or one call.
DatasetOwned == [owner |-> "dataset", worker |-> ""]

CallOwned(w) == [owner |-> "call", worker |-> w]

\* Calling a chain on a value: the operations are applied in order.
Apply(chain, v) == [v EXCEPT !.ops = v.ops \o chain]

\* t3d.Compose / t2d.Compose of the instance3d chain with a keyword argument.
ApplyWith(chain, v, kw) == [v EXCEPT !.ops = v.ops \o chain \o <<Op("kwargs", kw, 1)>>]

\* The factor by which a value's spatial extents have been divided.
RECURSIVE DenOf(_)
DenOf(ops) == IF ops = <<>> THEN 1 ELSE Head(ops).den * DenOf(Tail(ops))

\* Front3D.define_transformations: the table built once at construction.
define_transformations ==
    [ color |-> << Op("ToTensor", "", 1), Op("Normalize", "imagenet_stats", 1) >>,
      depth |-> << Op("ToImage", "", 1), Op("Resize", "depth_image_size,NEAREST", 1),
                   Op("ToNumpyArray", "", 1), Op("ToTensorFromNumpy", "", 1),
                   Op("ToDepthMap", "intrinsic", 1) >>,
      instance2d |-> << Op("SegmentationToMasks",
                           "image_size,num_min_instance_pixels,max_instances,True,stuff_classes", 1) >>,
      geometry |-> << Op("ToTensor", "float", 1), Op("Unsqueeze", "0", 1), Op("ToTDF", "12", 1) >>,
      geometry_truncate |-> << Op("ToTDF", "self.truncation", 1) >>,
      occupancy_64 |-> << Op("ResizeTrilinear", "0.25", 4), Op("ToBinaryMask", "8", 1) >>,
      occupancy_128 |-> << Op("ResizeTrilinear", "0.5", 2), Op("ToBinaryMask", "6", 1) >>,
      occupancy_256 |-> << Op("ToBinaryMask", "self.truncation", 1) >>,
      weighting3d_64 |-> << Op("ResizeTrilinear", "0.25", 4) >>,
      weighting3d_128 |-> << Op("ResizeTrilinear", "0.5", 2) >>,
      semantic3d |-> << Op("ToTensor", "int", 1), Op("Unsqueeze", "0", 1) >>,
      instance3d |-> << Op("ToTensor", "int", 1), Op("Unsqueeze", "0", 1),
                        Op("Mapping", "mapping={},ignore_values=[0]", 1) >>,
      segmentation3d_64 |-> << Op("ResizeMax", "8,4,2", 4) >>,
      segmentation3d_128 |-> << Op("ResizeMax", "4,2,1", 2) >> ]

\* Front3D.load_frustum_mask: the mask volume of the dataset root, as booleans.
load_frustum_mask ==
    Apply(<<Op("from_numpy", "", 1), Op("bool", "", 1)>>, Tensor(File(<<>>, "frustum_mask.npz", <<>>), DatasetOwned))

(***************************************************************************)
(* Construction: Front3D.__init__.                                          *)
(***************************************************************************)
\* Front3D.load_and_filter_file_list: every line stripped, none dropped.
load_and_filter_file_list(content) == [i \in 1..Len(content) |-> Strip(content[i])]

\* random.shuffle(x): x is left in any one of its orderings.
Shuffles(s) ==
    LET n == Len(s)
        Bij == { p \in [1..n -> 1..n] : \A i, j \in 1..n : p[i] = p[j] => i = j }
    IN  { [i \in 1..n |-> s[p[i]]] : p \in Bij }

\* A variant that shuffles whatever the flag says.
MaybeShuffle_Always(s, shuffle) == Shuffles(s)

\* `if shuffle: random.shuffle(self.samples)`
MaybeShuffle(s, shuffle) == IF shuffle THEN Shuffles(s) ELSE {s}

\* A variant whose slice keeps one entry more than asked for.
SliceTo_OneMore(s, num) ==
    IF num.none THEN s
    ELSE SubSeq(s, 1, IF num.val + 1 < Len(s) THEN num.val + 1 ELSE Len(s))

\* s[:num]: Python's slice with an upper bound that may be None, negative or
\* past the end.
SliceTo(s, num) ==
    IF num.none THEN s
    ELSE IF num.val >= 0
         THEN SubSeq(s, 1, IF num.val < Len(s) THEN num.val ELSE Len(s))
         ELSE SubSeq(s, 1, IF Len(s) + num.val > 0 THEN Len(s) + num.val ELSE 0)

\* self.fields after `if fields is None: self.fields = fields`: the attribute
\* is bound (to None) only when the argument is None, and is left unset
\* otherwise.
UnsetFields == [tag |-> "unset", items |-> {}]

InitFields(fields) == IF fields.tag = "none" THEN fields ELSE UnsetFields

\* A name not bound to a Front3D object yet.
NoObject ==
    [ alive |-> FALSE, samples |-> <<>>, fields |-> UnsetFields,
      image_size |-> <<0, 0>>,
      frustum_mask |-> Tensor(File(<<>>, "", <<>>), DatasetOwned), transforms |-> [k \in {} |-> <<>>] ]

NoCall == [called |-> FALSE, num_samples |-> NoneNum, shuffle |-> FALSE]

\* The object __init__ leaves behind, given the order the samples ended up in.
NewObject(samples, fields) ==
    [ alive |-> TRUE, samples |-> samples, fields |-> InitFields(fields),
      image_size |-> <<320, 240>>,
      frustum_mask |-> load_frustum_mask, transforms |-> define_transformations ]

\* ds[o] = Front3D(file_list_path, dataset_root_path, fields, num_samples, shuffle)
Construct(o, num, shuffle) ==
    /\ ~ds[o].alive
    /\ \E shuffled \in MaybeShuffle(load_and_filter_file_list(fileList), shuffle) :
           ds' = [ds EXCEPT ![o] = NewObject(SliceTo(shuffled, num), fieldsArg)]
    /\ ctorArgs' = [ctorArgs EXCEPT ![o] = [called |-> TRUE, num_samples |-> num, shuffle |-> shuffle]]
    /\ UNCHANGED <<fileList, fieldsArg, frame, ret, catalog, lookups>>


(***************************************************************************)
(* Retrieval: Front3D.__getitem__ and Front3D.__len__.                      *)
(***************************************************************************)
\* The dataset instance the workers serve.
Served == "first"

NoSample == [k \in {} |-> 0]

IdleFrame == [op |-> "idle", index |-> 0, scene_id |-> <<>>, image_id |-> <<>>, sample |-> NoSample]

NoReturn ==
    [kind |-> "none", error |-> "", line |-> 0, index |-> 0, sample |-> NoSample, reads |-> {}, value |-> 0]

Raised(index, error, line, reads) ==
    [kind |-> "raise", error |-> error, line |-> line, index |-> index, sample |-> NoSample,
     reads |-> reads, value |-> 0]

Returned(index, sample, reads) ==
    [kind |-> "return", error |-> "", line |-> 0, index |-> index, sample |-> sample,
     reads |-> reads, value |-> 0]

\* The state of one run of the body: the record under construction, the
\* exception raised (none: ""), the line raising it, the local
\* needs_weighting, and the assets read so far.
Raise(st, error, line) == [st EXCEPT !.err = error, !.line = line]

\* FieldList.add_field
AddField(st, name, value) == [st EXCEPT !.sample = (name :> value) @@ st.sample]

ReadAsset(st, file) == [st EXCEPT !.reads = @ \cup {file}]

\* `x in self.fields`: an unset attribute raises AttributeError, None is not
\* iterable and raises TypeError, a list answers by membership.
ContainsError(self) ==
    IF self.fields.tag = "unset" THEN "AttributeError"
    ELSE IF self.fields.tag = "none" THEN "TypeError"
    ELSE ""

Contains(self, x) == x \in self.fields.items

\* Truth value of a string literal: only the empty string is false.
Truthy(str) == str # ""

\* self.transforms[key] raises KeyError for a key the table does not hold.
HasChain(self, key) == key \in DOMAIN self.transforms

\* An asset decoded by a codec of lib.data, with the codec's second argument.
Decoded(file, codec, arg, w) == Apply(<<Op(codec, arg, 1)>>, Tensor(file, CallOwned(w)))

\* lines 63-66
ColorStep(self, fr, w, st) ==
    IF st.err # "" THEN st
    ELSE IF ContainsError(self) # "" THEN Raise(st, ContainsError(self), 63)
    ELSE IF ~Contains(self, "color") THEN st
    ELSE LET file == File(fr.scene_id, "rgb_{image_id}.png", fr.image_id)
             s1 == ReadAsset(st, file)
         IN  IF ~HasChain(self, "color") THEN Raise(s1, "KeyError", 65)
             ELSE AddField(s1, "color", Apply(self.transforms["color"], Decoded(file, "Image.open", "PNG", w)))

\* lines 68-71
DepthStep(self, fr, w, st) ==
    IF st.err # "" THEN st
    ELSE IF ContainsError(self) # "" THEN Raise(st, ContainsError(self), 68)
    ELSE IF ~Contains(self, "depth") THEN st
    ELSE LET file == File(fr.scene_id, "depth_{image_id}.exr", fr.image_id)
             s1 == ReadAsset(st, file)
             depth == Apply(<<Op("squeeze", "", 1), Op("flip", "[::-1, ::-1]", 1)>>,
                            Decoded(file, "pyexr.read", "", w))
         IN  IF ~HasChain(self, "depth") THEN Raise(s1, "KeyError", 70)
             ELSE AddField(s1, "depth", Apply(self.transforms["depth"], depth))

\* lines 73-76
Instance2dStep(self, fr, w, st) ==
    IF st.err # "" THEN st
    ELSE IF ContainsError(self) # "" THEN Raise(st, ContainsError(self), 73)
    ELSE IF ~Contains(self, "instance2d") THEN st
    ELSE LET file == File(fr.scene_id, "segmap_{image_id}.mapped.npz", fr.image_id)
             s1 == ReadAsset(st, file)
         IN  IF ~HasChain(self, "instance2d") THEN Raise(s1, "KeyError", 75)
             ELSE AddField(s1, "instance2d", Apply(self.transforms["instance2d"], Decoded(file, "np.load", "", w)))

\* lines 80-96
GeometryStep(self, fr, w, st) ==
    IF st.err # "" THEN st
    ELSE IF ContainsError(self) # "" THEN Raise(st, ContainsError(self), 80)
    ELSE IF ~Contains(self, "geometry") THEN st
    ELSE LET file == File(fr.scene_id, "geometry_{image_id}.df", fr.image_id)
             s1 == ReadAsset(st, file)
             raw == Decoded(file, "read_sparse_distance_field_to_dense", "12", w)
         IN  IF ~HasChain(self, "geometry") THEN Raise(s1, "KeyError", 83)
             ELSE IF ~HasChain(self, "occupancy_256") THEN Raise(s1, "KeyError", 86)
             ELSE IF ~HasChain(self, "occupancy_128") THEN Raise(s1, "KeyError", 87)
             ELSE IF ~HasChain(self, "occupancy_64") THEN Raise(s1, "KeyError", 88)
             ELSE IF ~HasChain(self, "geometry_truncate") THEN Raise(s1, "KeyError", 90)
             ELSE LET geometry == Apply(self.transforms["geometry"], raw)
                      s2 == AddField(s1, "occupancy_256", Apply(self.transforms["occupancy_256"], geometry))
                      s3 == AddField(s2, "occupancy_128", Apply(self.transforms["occupancy_128"], geometry))
                      s4 == AddField(s3, "occupancy_64", Apply(self.transforms["occupancy_64"], geometry))
                      s5 == AddField(s4, "geometry", Apply(self.transforms["geometry_truncate"], geometry))
                      s6 == AddField(s5, "frustum_mask",
                                     [self.frustum_mask EXCEPT !.obj = CallOwned(w),
                                                               !.ops = @ \o <<Op("clone", "", 1)>>])
                  IN  [s6 EXCEPT !.needs_weighting = TRUE]

\* line 98: `"semantic3d" or "instance3d" in self.fields` is
\* `"semantic3d" or ("instance3d" in self.fields)`; `or` stops at its first
\* true operand, so self.fields is not read when that operand is true.
SegmentationWanted(self) == Truthy("semantic3d") \/ Contains(self, "instance3d")

SegmentationFile(fr) == File(fr.scene_id, "segmentation_{image_id}.mapped.sem", fr.image_id)

\* lines 98-101
SegmentationStep(self, fr, w, st) ==
    IF st.err # "" THEN st
    ELSE IF ~Truthy("semantic3d") /\ ContainsError(self) # "" THEN Raise(st, ContainsError(self), 98)
    ELSE IF ~SegmentationWanted(self) THEN st
    ELSE [ReadAsset(st, SegmentationFile(fr)) EXCEPT !.needs_weighting = TRUE]

\* lines 103-109, inside the block opened at line 98
Semantic3dStep(self, fr, w, st) ==
    IF st.err # "" THEN st
    ELSE IF ~SegmentationWanted(self) THEN st
    ELSE IF ContainsError(self) # "" THEN Raise(st, ContainsError(self), 103)
    ELSE IF ~Contains(self, "semantic3d") THEN st
    ELSE IF ~HasChain(self, "semantic3d") THEN Raise(st, "KeyError", 104)
    ELSE IF ~HasChain(self, "segmentation3d_128") THEN Raise(st, "KeyError", 108)
    ELSE IF ~HasChain(self, "segmentation3d_64") THEN Raise(st, "KeyError", 109)
    ELSE LET raw == Decoded(SegmentationFile(fr), "read_sparse_segmentation_to_dense[0]", "1000,0", w)
             semantic3d == Apply(self.transforms["semantic3d"], raw)
             s1 == AddField(st, "semantic3d", semantic3d)
             s2 == AddField(s1, "semantic3d_128", Apply(self.transforms["segmentation3d_128"], semantic3d))
         IN  AddField(s2, "semantic3d_64", Apply(self.transforms["segmentation3d_64"], semantic3d))

\* lines 111-119, inside the block opened at line 98
Instance3dStep(self, fr, w, st) ==
    IF st.err # "" THEN st
    ELSE IF ~SegmentationWanted(self) THEN st
    ELSE IF ContainsError(self) # "" THEN Raise(st, ContainsError(self), 111)
    ELSE IF ~Contains(self, "instance3d") THEN st
    ELSE IF "instance2d" \notin DOMAIN st.sample THEN Raise(st, "KeyError", 113)
    ELSE IF ~HasChain(self, "instance3d") THEN Raise(st, "KeyError", 114)
    ELSE IF ~HasChain(self, "segmentation3d_128") THEN Raise(st, "KeyError", 118)
    ELSE IF ~HasChain(self, "segmentation3d_64") THEN Raise(st, "KeyError", 119)
    ELSE LET raw == Decoded(SegmentationFile(fr), "read_sparse_segmentation_to_dense[1]", "1000,0", w)
             instance3d == ApplyWith(self.transforms["instance3d"], raw, "mapping=instance2d.instance_locations")
             s1 == AddField(st, "instance3d", instance3d)
             s2 == AddField(s1, "instance3d_128", Apply(self.transforms["segmentation3d_128"], instance3d))
         IN  AddField(s2, "instance3d_64", Apply(self.transforms["segmentation3d_64"], instance3d))

\* lines 121-129
WeightingStep(self, fr, w, st) ==
    IF st.err # "" THEN st
    ELSE IF ~st.needs_weighting THEN st
    ELSE LET file == File(fr.scene_id, "weighting_{image_id}.df", fr.image_id)
             s1 == ReadAsset(st, file)
             raw == Decoded(file, "read_sparse_distance_field_to_dense", "1.0", w)
         IN  IF ~HasChain(self, "weighting") THEN Raise(s1, "KeyError", 124)
             ELSE IF ~HasChain(self, "weighting3d_128") THEN Raise(s1, "KeyError", 128)
             ELSE LET weighting == Apply(self.transforms["weighting"], raw)
                      s2 == AddField(s1, "weighting3d", weighting)
                      s3 == AddField(s2, "weighting3d_128", Apply(self.transforms["weighting3d_128"], weighting))
                  IN  AddField(s3, "weighting3d_64", Apply(self.transforms["weighting3d_128"], weighting))

\* lines 62-131: the body after the metadata fields, run in source order.
GetItemBody(self, fr, w) ==
    LET st0 == [sample |-> fr.sample, err |-> "", line |-> 0, needs_weighting |-> FALSE, reads |-> {}]
        st1 == ColorStep(self, fr, w, st0)
        st2 == DepthStep(self, fr, w, st1)
        st3 == Instance2dStep(self, fr, w, st2)
        st4 == GeometryStep(self, fr, w, st3)
        st5 == SegmentationStep(self, fr, w, st4)
        st6 == Semantic3dStep(self, fr, w, st5)
        st7 == Instance3dStep(self, fr, w, st6)
    IN  WeightingStep(self, fr, w, st7)

\* The transform-table lookups __getitem__ makes: the line, the key looked
\* up, and the record field the chain's result is stored under.
TransformLookups ==
    { [line |-> 65, key |-> "color", field |-> "color"],
      [line |-> 70, key |-> "depth", field |-> "depth"],
      [line |-> 75, key |-> "instance2d", field |-> "instance2d"],
      [line |-> 83, key |-> "geometry", field |-> "geometry"],
      [line |-> 86, key |-> "occupancy_256", field |-> "occupancy_256"],
      [line |-> 87, key |-> "occupancy_128", field |-> "occupancy_128"],
      [line |-> 88, key |-> "occupancy_64", field |-> "occupancy_64"],
      [line |-> 90, key |-> "geometry_truncate", field |-> "geometry"],
      [line |-> 104, key |-> "semantic3d", field |-> "semantic3d"],
      [line |-> 108, key |-> "segmentation3d_128", field |-> "semantic3d_128"],
      [line |-> 109, key |-> "segmentation3d_64", field |-> "semantic3d_64"],
      [line |-> 114, key |-> "instance3d", field |-> "instance3d"],
      [line |-> 118, key |-> "segmentation3d_128", field |-> "instance3d_128"],
      [line |-> 119, key |-> "segmentation3d_64", field |-> "instance3d_64"],
      [line |-> 124, key |-> "weighting", field |-> "weighting3d"],
      [line |-> 128, key |-> "weighting3d_128", field |-> "weighting3d_128"],
      [line |-> 129, key |-> "weighting3d_128", field |-> "weighting3d_64"] }

\* list[i]: a negative index counts from the end; IndexError outside the list.
InRange(s, i) == -Len(s) <= i /\ i < Len(s)

ListIndex(s, i) == IF i < 0 THEN s[Len(s) + i + 1] ELSE s[i + 1]

\* lines 54-60: the sample string is resolved and split, and the record is
\* created with its two metadata fields.
GetItemCall(w, index) ==
    /\ ds[Served].alive
    /\ frame[w].op = "idle"
    /\ LET self == ds[Served]
       IN  IF ~InRange(self.samples, index)
           THEN /\ ret' = [ret EXCEPT ![w] = Raised(index, "IndexError", 54, {})]
                /\ UNCHANGED frame
           ELSE LET sample_path == ListIndex(self.samples, index)
                    parts == Split(sample_path, "/")
                IN  IF Len(parts) < 2
                    THEN /\ ret' = [ret EXCEPT ![w] = Raised(index, "IndexError", 56, {})]
                         /\ UNCHANGED frame
                    ELSE /\ frame' = [frame EXCEPT ![w] =
                                [op |-> "getitem", index |-> index,
                                 scene_id |-> parts[1], image_id |-> parts[2],
                                 sample |-> [index |-> index, name |-> sample_path]]]
                         /\ ret' = [ret EXCEPT ![w] = NoReturn]
    /\ UNCHANGED <<fileList, fieldsArg, ctorArgs, ds, catalog, lookups>>

\* A variant that consumes the sample it serves (self.samples.pop(index)).
GetItemRun_Pop(w) ==
    /\ frame[w].op = "getitem"
    /\ LET st == GetItemBody(ds[Served], frame[w], w)
       IN  ret' = [ret EXCEPT ![w] =
                      IF st.err # "" THEN Raised(frame[w].index, st.err, st.line, st.reads)
                      ELSE Returned(frame[w].index, st.sample, st.reads)]
    /\ frame' = [frame EXCEPT ![w] = IdleFrame]
    /\ ds' = [ds EXCEPT ![Served].samples =
                 SubSeq(@, 1, frame[w].index) \o SubSeq(@, frame[w].index + 2, Len(@))]
    /\ UNCHANGED <<fileList, fieldsArg, ctorArgs, catalog, lookups>>

\* lines 62-131: the record is filled and returned, or the call raises and
\* the record is dropped with the call's frame.
GetItemRun(w) ==
    /\ frame[w].op = "getitem"
    /\ LET st == GetItemBody(ds[Served], frame[w], w)
       IN  ret' = [ret EXCEPT ![w] =
                      IF st.err # "" THEN Raised(frame[w].index, st.err, st.line, st.reads)
                      ELSE Returned(frame[w].index, st.sample, st.reads)]
    /\ frame' = [frame EXCEPT ![w] = IdleFrame]
    /\ UNCHANGED <<fileList, fieldsArg, ctorArgs, ds, catalog, lookups>>

\* Front3D.__len__
LenCall(w) ==
    /\ ds[Served].alive
    /\ frame[w].op = "idle"
    /\ ret' = [ret EXCEPT ![w] = [NoReturn EXCEPT !.kind = "len", !.value = Len(ds[Served].samples)]]
    /\ UNCHANGED <<fileList, fieldsArg, ctorArgs, ds, frame, catalog, lookups>>

(***************************************************************************)
(* The path catalog: DatasetCatalog.                                        *)
(***************************************************************************)
Descriptor(file_list_path, dataset_root_path, factory) ==
    [file_list_path |-> file_list_path, dataset_root_path |-> dataset_root_path, factory |-> factory]

\* DatasetCatalog.DATASETS
DATASETS ==
    [ Front3DImages_Train |-> Descriptor("resources/front3d/train_list_2d.txt", "data/front3d/", "Front3D"),
      Front3DImages_Validation |-> Descriptor("resources/front3d/validation_list_2d.txt", "data/front3d/", "Front3D"),
      Front3DImages_Test |-> Descriptor("resources/front3d/test_list_2d.txt", "data/front3d/", "Front3D"),
      Front3D_Sample |-> Descriptor("resources/front3d/sample.txt", "data/front3d-sample/", "Front3D"),
      Front3D_Train |-> Descriptor("resources/front3d/train_list_3d.txt", "data/front3d/", "Front3D"),
      Front3D_Validation |-> Descriptor("resources/front3d/validation_list_3d.txt", "data/front3d/", "Front3D"),
      Front3D_Test |-> Descriptor("resources/front3d/test_list_3d.txt", "data/front3d/", "Front3D") ]

\* Names a client may ask for: the registered ones, and names that are close
\* to registered ones without being one.
AbsentNames == {"Front3D", "front3d_train", "Front3D_Train ", "Front3D_*"}

CatalogNames == DOMAIN DATASETS \cup AbsentNames

NoDescriptor == Descriptor("", "", "")

\* A variant that answers an unknown name with a default descriptor, as
\* dict.get(name, default) would.
get_WithDefault(table, name) ==
    [name |-> name, kind |-> "return", error |-> "",
     attrs |-> IF name \in DOMAIN table THEN table[name] ELSE table["Front3D_Sample"]]

\* DatasetCatalog.get: `attrs = DatasetCatalog.DATASETS[name]; return attrs`
get(table, name) ==
    IF name \in DOMAIN table
    THEN [name |-> name, kind |-> "return", error |-> "", attrs |-> table[name]]
    ELSE [name |-> name, kind |-> "raise", error |-> "KeyError", attrs |-> NoDescriptor]

CatalogGet(name) ==
    /\ Len(lookups) < MaxLookups
    /\ lookups' = Append(lookups, get(catalog, name))
    /\ UNCHANGED <<fileList, fieldsArg, ctorArgs, ds, frame, ret, catalog>>

(***************************************************************************)
(* Specifications.                                                          *)
(***************************************************************************)
Init ==
    /\ fileList \in FileLists
    /\ fieldsArg \in FieldArgs
    /\ ctorArgs = [o \in Instances |-> NoCall]
    /\ ds = [o \in Instances |-> NoObject]
    /\ frame = [w \in Workers |-> IdleFrame]
    /\ ret = [w \in Workers |-> NoReturn]
    /\ catalog = DATASETS
    /\ lookups = <<>>

\* One dataset, built once and then read by the workers of a data loader.
Next ==
    \/ \E num \in NumSamplesArgs, shuffle \in BOOLEAN : Construct(Served, num, shuffle)
    \/ \E w \in Workers, index \in 0..MaxLines : GetItemCall(w, index)
    \/ \E w \in Workers : GetItemRun(w)
    \/ \E w \in Workers : LenCall(w)

Spec == Init /\ [][Next]_vars

\* The same program with the field selection either None or every field.
InitWorkers == Init /\ fieldsArg \in {NoneFields, ListFields(FieldNames)}

SpecWorkers == InitWorkers /\ [][Next]_vars

\* Two datasets built from one file list.
NextPair ==
    \E o \in Instances, num \in NumSamplesArgs, shuffle \in BOOLEAN : Construct(o, num, shuffle)

InitPair == Init /\ fieldsArg \in {NoneFields, ListFields(FieldNames)}

SpecPair == InitPair /\ [][NextPair]_vars

\* A client consulting the catalog.
NextCatalog ==
    \E name \in CatalogNames : CatalogGet(name)

InitCatalog == Init /\ fileList = <<>> /\ fieldsArg = NoneFields

SpecCatalog == InitCatalog /\ [][NextCatalog]_vars


(***************************************************************************)
(* Properties.                                                              *)
(***************************************************************************)
\* Line i of the file list as the loader is to keep it.
StrippedLine(i) == Strip(fileList[i])

\* How often x occurs in the sequence s.
Count(x, s) == Cardinality({ i \in 1..Len(s) : s[i] = x })

\* Worker w's last call was a __getitem__ that has ended, on an index inside
\* [0, len) whose sample string holds a scene id and an image id.
EndedGetItem(w) ==
    /\ ret[w].kind \in {"return", "raise"}
    /\ 0 <= ret[w].index
    /\ ret[w].index < Len(ds[Served].samples)
    /\ Len(Split(ds[Served].samples[ret[w].index + 1], "/")) = 2

\* The record fields a field selection asks for, derived fields included.
Pyramid3d == {"geometry", "semantic3d", "instance3d"}

SelectedFields(F) ==
    (F \ {"geometry"})
    \cup (IF "geometry" \in F
          THEN {"geometry", "occupancy_256", "occupancy_128", "occupancy_64", "frustum_mask"} ELSE {})
    \cup (IF "semantic3d" \in F THEN {"semantic3d_128", "semantic3d_64"} ELSE {})
    \cup (IF "instance3d" \in F THEN {"instance3d_128", "instance3d_64"} ELSE {})
    \cup (IF F \cap Pyramid3d # {} THEN {"weighting3d", "weighting3d_128", "weighting3d_64"} ELSE {})

WeightingFields == {"weighting3d", "weighting3d_128", "weighting3d_64"}

ReadPatterns(w) == { f.pattern : f \in ret[w].reads }

\* C1: for a dataset constructed with a field list F, __getitem__(i) on every
\* index i in [0, len) returns a record whose fields are exactly index and
\* name plus the fields F selects with their derived fields.
C1_RecordHoldsExactlySelectedFields ==
    \A w \in Workers :
        (fieldsArg.tag = "list" /\ EndedGetItem(w)) =>
            /\ ret[w].kind = "return"
            /\ DOMAIN ret[w].sample = {"index", "name"} \cup SelectedFields(fieldsArg.items)

C3_ShuffleIsAPermutation ==
    LET L == Len(fileList)
        entries == [i \in 1..L |-> StrippedLine(i)]
        values == { entries[i] : i \in 1..L }
    IN  /\ \A o, p \in Instances :
              ( /\ ctorArgs[o].called /\ ~ctorArgs[o].shuffle
                /\ ctorArgs[p].called /\ ~ctorArgs[p].shuffle
                /\ Len(ds[o].samples) <= Len(ds[p].samples) ) =>
                  /\ ds[o].samples = SubSeq(ds[p].samples, 1, Len(ds[o].samples))
                  /\ ctorArgs[o].num_samples = ctorArgs[p].num_samples => ds[o].samples = ds[p].samples
        /\ \A o \in Instances :
              (ctorArgs[o].called /\ ctorArgs[o].shuffle) =>
                  LET k == ctorArgs[o].num_samples
                      kept == ds[o].samples
                  IN  /\ \A i \in 1..Len(kept) : kept[i] \in values
                      /\ k.none =>
                            /\ Len(kept) = L
                            /\ \A x \in values : Count(x, kept) = Count(x, entries)
                      /\ (~k.none /\ 0 <= k.val /\ k.val <= L) =>
                            /\ Len(kept) = k.val
                            /\ \A x \in values : Count(x, kept) <= Count(x, entries)

\* C3 happens: one list of two different entries, shuffled into the other
\* order by one construction and cut to one sample by another, which keeps
\* the entry that is second in the file: the cut follows the shuffle.
C3_Witness ==
    /\ Len(fileList) = 2
    /\ StrippedLine(1) # StrippedLine(2)
    /\ ctorArgs["first"].called /\ ctorArgs["first"].shuffle /\ ctorArgs["first"].num_samples.none
    /\ ds["first"].samples = <<StrippedLine(2), StrippedLine(1)>>
    /\ ctorArgs["second"].called /\ ctorArgs["second"].shuffle /\ ctorArgs["second"].num_samples = IntNum(1)
    /\ ds["second"].samples = <<StrippedLine(2)>>

\* C4: __getitem__ reads the weighting file and adds the three weighting
\* fields if and only if geometry, semantic3d or instance3d is in the field
\* list; when none is, neither the segmentation file nor the weighting file
\* is read and no weighting field is added.
C4_WeightingIffPyramidRequested ==
    \A w \in Workers :
        (fieldsArg.tag = "list" /\ EndedGetItem(w)) =>
            LET wanted == fieldsArg.items \cap Pyramid3d # {}
            IN  /\ wanted <=> "weighting_{image_id}.df" \in ReadPatterns(w)
                /\ wanted <=> WeightingFields \subseteq DOMAIN ret[w].sample
                /\ ~wanted =>
                      /\ "segmentation_{image_id}.mapped.sem" \notin ReadPatterns(w)
                      /\ WeightingFields \cap DOMAIN ret[w].sample = {}

\* C5: with instance3d in the field list and instance2d not, __getitem__
\* fails with a missing-field lookup error at the instance2d lookup and
\* returns no record; with both in the list, instance2d is in the record
\* before the instance3d step looks it up, and the lookup succeeds.
C5_Instance3dNeedsInstance2d ==
    \A w \in Workers :
        (fieldsArg.tag = "list" /\ EndedGetItem(w) /\ "instance3d" \in fieldsArg.items) =>
            IF "instance2d" \in fieldsArg.items
            THEN /\ ~(ret[w].kind = "raise" /\ ret[w].line <= 113)
                 /\ "segmap_{image_id}.mapped.npz" \in ReadPatterns(w)
            ELSE /\ ret[w].kind = "raise"
                 /\ ret[w].error = "KeyError"
                 /\ ret[w].line = 113

\* C6: with geometry requested, occupancy_256, occupancy_128 and
\* occupancy_64 are derived from the decoded geometry as it is before the
\* configured truncation, at 1, 1/2 and 1/4 of the full resolution, and the
\* geometry field of the record is the value after that truncation.
C6_OccupancyFromUntruncatedGeometry ==
    \A w \in Workers :
        (fieldsArg.tag = "list" /\ EndedGetItem(w) /\ "geometry" \in fieldsArg.items) =>
            /\ ret[w].kind = "return"
            /\ {"geometry", "occupancy_256", "occupancy_128", "occupancy_64"} \subseteq DOMAIN ret[w].sample
            /\ LET rec == ret[w].sample
                   truncate == ds[Served].transforms["geometry_truncate"]
                   n == Len(rec["geometry"].ops) - Len(truncate)
                   decoded == SubSeq(rec["geometry"].ops, 1, n)
                   Prefixed(v) == Len(v.ops) >= n /\ SubSeq(v.ops, 1, n) = decoded
               IN  /\ rec["geometry"].ops = decoded \o truncate
                   /\ \A f \in {"occupancy_256", "occupancy_128", "occupancy_64"} :
                          /\ Prefixed(rec[f])
                          /\ \A i \in 1..Len(rec[f].ops) : rec[f].ops[i].arg # "self.truncation" \/ i = Len(rec[f].ops)
                   /\ DenOf(rec["occupancy_256"].ops) = 1
                   /\ DenOf(rec["occupancy_128"].ops) = 2
                   /\ DenOf(rec["occupancy_64"].ops) = 4

C8_CatalogGet ==
    /\ catalog = DATASETS
    /\ \A i \in 1..Len(lookups) :
          LET r == lookups[i]
          IN  IF r.name \in DOMAIN DATASETS
              THEN r.kind = "return" /\ r.attrs = DATASETS[r.name]
              ELSE r.kind = "raise" /\ r.error = "KeyError" /\ r.attrs = NoDescriptor
    /\ \A i \in 1..Len(lookups) :
          lookups[i].name = "Front3D_Sample" =>
              lookups[i].attrs = Descriptor("resources/front3d/sample.txt", "data/front3d-sample/", "Front3D")

\* C8 happens: a registered name was looked up and then a name that only
\* begins like registered ones, and the second lookup failed.
C8_Witness ==
    /\ Len(lookups) = 2
    /\ lookups[1].name = "Front3D_Sample" /\ lookups[1].kind = "return"
    /\ lookups[2].name = "Front3D" /\ lookups[2].kind = "raise"

\* C9: the weighting pyramid has the resolutions of the occupancy pyramid:
\* weighting3d_128 is the weighting resized by 1/2 per axis and
\* weighting3d_64 is the weighting resized by 1/4 per axis, the extent of
\* occupancy_64 and not of occupancy_128.
C9_WeightingPyramidResolutions ==
    \A o \in Instances :
        ds[o].alive =>
            \A site \in TransformLookups :
                /\ site.field = "weighting3d_128" =>
                      /\ HasChain(ds[o], site.key)
                      /\ DenOf(ds[o].transforms[site.key]) = DenOf(ds[o].transforms["occupancy_128"])
                /\ site.field = "weighting3d_64" =>
                      /\ HasChain(ds[o], site.key)
                      /\ DenOf(ds[o].transforms[site.key]) = DenOf(ds[o].transforms["occupancy_64"])

\* C10: every transform-chain name __getitem__ looks up is a key of the
\* table define_transformations built at construction, so no __getitem__
\* call ends with a missing-chain lookup error.
C10_EveryLookedUpChainIsDefined ==
    /\ \A o \in Instances :
          ds[o].alive => \A site \in TransformLookups : site.key \in DOMAIN ds[o].transforms
    /\ \A w \in Workers :
          ~(ret[w].kind = "raise" /\ ret[w].error = "KeyError" /\ ret[w].line \in { s.line : s \in TransformLookups })


====
